---- MODULE Spec2Model ----
(***************************************************************************)
(* Model of POC.py: a Streamlit script that reads (ds, y) rows from the    *)
(* Snowflake table forecast_data, fits a Prophet model, forecasts          *)
(* forecast_days days past the last observed date, splits the forecast     *)
(* into a historical and a future part, builds the confidence polygon,     *)
(* shows the last forecast_days rows as a table and exports them as CSV.   *)
(*                                                                         *)
(* Timestamps are day numbers counted from 2020-01-01 (day 0), the date    *)
(* the query filters on.  The script runs top to bottom once per rerun;    *)
(* pc is the statement the run has reached.  An exception raised by a      *)
(* statement ends the run (pc = "error").                                  *)
(*                                                                         *)
(* The numerical content of Prophet's fit is a black box: a fit picks a    *)
(* slope out of Slopes and predicts intercept + slope * ds, with an        *)
(* uncertainty interval whose width depends on ds.  Everything else of     *)
(* Prophet and pandas that the script calls (row filtering, history_dates, *)
(* make_future_dataframe, tail, to_csv) is modelled as the library does it.*)
(***************************************************************************)
EXTENDS Integers, Sequences, FiniteSets, TLC

VARIABLES
    pc,               \* statement of POC.py the run has reached
    forecast_data,    \* rows of the Snowflake table forecast_data
    forecast_days,    \* value of the slider
    raw,              \* rows returned by get_snowflake_data()
    df,               \* df after df['ds'] = pd.to_datetime(df['ds'])
    err,              \* the exception that ended the run, "none" otherwise
    history,          \* model.history: the rows Prophet fits on
    history_dates,    \* model.history_dates
    slope,            \* the fitted parameter of the black-box model
    future,           \* the dataframe of make_future_dataframe (its ds column)
    forecast,         \* the dataframe of model.predict
    boundary,         \* df['ds'].max(), the split point
    historical,       \* forecast[forecast['ds'] <= boundary]
    future_forecast,  \* forecast[forecast['ds'] > boundary]
    band_x, band_y,   \* x and y of the confidence interval trace
    limit,            \* the argument of tail()
    table,            \* the dataframe shown by st.dataframe
    csv               \* the text handed to st.download_button

vars == <<pc, forecast_data, forecast_days, raw, df, err, history, history_dates,
          slope, future, forecast, boundary, historical, future_forecast,
          band_x, band_y, limit, table, csv>>

-----------------------------------------------------------------------------
(* Bounds of the model and constants of the program *)

MaxRows == 3             \* most rows in the table forecast_data
MaxForecastDays == 31    \* largest slider value explored (the slider allows 365)
MaxLen == 3              \* longest forecast given to a function on its own
SliderMin == 30          \* min_value of the slider
QueryStartDay == 0       \* '2020-01-01' of the WHERE clause, as a day number

Days == {-1, 0, 1, 730}  \* 2019-12-31, 2020-01-01, 2020-01-02, 2021-12-31
Slopes == {-1, 1}

DateCell(d) == [k |-> "date", v |-> d]
TextCell == [k |-> "text", v |-> 0]
NumCell(n) == [k |-> "num", v |-> n]
NullCell == [k |-> "null", v |-> 0]

DsCells == {DateCell(d) : d \in Days} \cup {TextCell}
YCells == {NumCell(5), NumCell(7), NullCell, TextCell}
RawRows == [ds : DsCells, y : YCells]

-----------------------------------------------------------------------------
(* Sequences *)

SeqsUpTo(S, n) == UNION {[1..k -> S] : k \in 0..n}

Reverse(s) == [i \in 1..Len(s) |-> s[Len(s) + 1 - i]]

Column(s, c) == [i \in 1..Len(s) |-> s[i][c]]

MaxOf(S) == CHOOSE m \in S : \A x \in S : x <= m

IsSortedBy(s, Key(_)) == \A i \in 1..Len(s) - 1 : Key(s[i]) <= Key(s[i + 1])

IsStrictlySortedBy(s, Key(_)) == \A i \in 1..Len(s) - 1 : Key(s[i]) < Key(s[i + 1])

\* The elements of a finite set of integers in ascending order.
SortedSeqOf(S) ==
    CHOOSE s \in [1..Cardinality(S) -> S] :
        \A i, j \in 1..Cardinality(S) : i < j => s[i] < s[j]

Ds(r) == r.ds

Perms(n) == {p \in [1..n -> 1..n] : \A i, j \in 1..n : i # j => p[i] # p[j]}

Permute(s, p) == [i \in 1..Len(s) |-> s[p[i]]]

-----------------------------------------------------------------------------
(* get_snowflake_data: SELECT ds, y FROM forecast_data
   WHERE ds >= '2020-01-01' ORDER BY ds *)

\* The order of SQL on the ds column: dates by day, and a text that is no date
\* after every date (it passes the WHERE clause as a string comparison does).
SqlKey(cell) == IF cell.k = "date" THEN cell.v ELSE 1000000

SqlDsKey(r) == SqlKey(r.ds)

WherePasses(r) == SqlDsKey(r) >= QueryStartDay

\* Faulty variant: the query without its ORDER BY.
Unordered(s) == TRUE

\* ORDER BY ds: the rows ascending by ds; rows of equal ds come in any order.
OrderedByDs(s) == IsSortedBy(s, SqlDsKey)

get_snowflake_data(t) ==
    LET kept == SelectSeq(t, WherePasses)
    IN  {r \in {Permute(kept, p) : p \in Perms(Len(kept))} : OrderedByDs(r)}

\* The table is a multiset of rows: it is listed in one fixed order of its rows.
RowRank(r) ==
    1000 * (IF r.ds.k = "date" THEN r.ds.v ELSE 1000)
      + (CASE r.y.k = "num" -> r.y.v [] r.y.k = "null" -> 100 [] OTHER -> 200)

Tables == {t \in SeqsUpTo(RawRows, MaxRows) : IsSortedBy(t, RowRank)}

-----------------------------------------------------------------------------
(* df['ds'] = pd.to_datetime(df['ds']) *)

ErrDatetime == "to_datetime: unable to parse ds"
ErrTooFewRows == "ValueError: Dataframe has less than 2 non-NaN rows."
ErrNumeric == "to_numeric: unable to parse y"

to_datetime_raises(rows) == \E i \in 1..Len(rows) : rows[i].ds.k # "date"

to_datetime(rows) == [i \in 1..Len(rows) |-> [ds |-> rows[i].ds.v, y |-> rows[i].y]]

-----------------------------------------------------------------------------
(* Prophet: fit, make_future_dataframe, predict *)

\* Faulty variant: rows without a value are kept (their value reads as 0).
KeepsNull(r) == TRUE


NotNull(r) == r.y.k # "null"

\* history = df[df['y'].notnull()]
FitRows(d) == SelectSeq(d, NotNull)

\* Faulty variant: one row with a value is enough for fit.
FitErrorOneRowEnough(d) ==
    IF Len(FitRows(d)) < 1 THEN ErrTooFewRows
    ELSE IF \E i \in 1..Len(FitRows(d)) : FitRows(d)[i].y.k # "num" THEN ErrNumeric
    ELSE "none"

\* fit raises on fewer than two rows with a value, then setup_dataframe
\* raises on a value pd.to_numeric cannot parse.
FitError(d) ==
    IF Len(FitRows(d)) < 2 THEN ErrTooFewRows
    ELSE IF \E i \in 1..Len(FitRows(d)) : FitRows(d)[i].y.k # "num" THEN ErrNumeric
    ELSE "none"

\* df.sort_values('ds') of setup_dataframe, as an insertion sort that keeps
\* rows of equal ds in the order they had.
InsertByDs(r, s) ==
    LET later == {i \in 1..Len(s) : s[i].ds > r.ds}
        at == IF later = {} THEN Len(s) + 1 ELSE CHOOSE i \in later : \A j \in later : i <= j
    IN  SubSeq(s, 1, at - 1) \o <<r>> \o SubSeq(s, at, Len(s))

RECURSIVE SortByDs(_)
SortByDs(s) ==
    IF s = <<>> THEN <<>>
    ELSE InsertByDs(s[Len(s)], SortByDs(SubSeq(s, 1, Len(s) - 1)))

\* setup_dataframe: y as numbers, rows sorted by ds.
FitHistory(d) ==
    SortByDs([i \in 1..Len(FitRows(d)) |->
                 [ds |-> FitRows(d)[i].ds, y |-> FitRows(d)[i].y.v]])

\* history_dates = the distinct ds of df (of all its rows), ascending.
HistoryDates(d) == SortedSeqOf({d[i].ds : i \in 1..Len(d)})

\* pd.date_range(start=last_date, periods=periods + 1, freq='D')
date_range(start, n) == [i \in 1..n |-> start + (i - 1)]

make_future_dataframe(dates, periods) ==
    LET last_date == dates[Len(dates)]
        After(t) == t > last_date
        later == SelectSeq(date_range(last_date, periods + 1), After)
        kept == SubSeq(later, 1, IF periods < Len(later) THEN periods ELSE Len(later))
    IN  dates \o kept

\* One row of predict: the point estimate and its uncertainty interval.
PredictRow(k, b, t) ==
    [ds |-> t,
     trend |-> k * t,
     yhat |-> b + k * t,
     yhat_lower |-> b + k * t - (1 + (t % 3)),
     yhat_upper |-> b + k * t + (1 + (t % 3))]

\* predict: one row per ds of the dataframe given, in ascending ds.
predict(k, b, dates) ==
    LET sorted == SortByDs([i \in 1..Len(dates) |-> [ds |-> dates[i]]])
    IN  [i \in 1..Len(dates) |-> PredictRow(k, b, sorted[i].ds)]

-----------------------------------------------------------------------------
(* The split at the last observed date, the confidence polygon, the table
   and the CSV *)

\* df['ds'].max()
LastObserved(d) == MaxOf({d[i].ds : i \in 1..Len(d)})

\* Faulty variant: the boundary row is left out of the historical part (< for <=).
HistoricalStrict(fc, b) ==
    LET Test(r) == r.ds < b
    IN  SelectSeq(fc, Test)

\* forecast[forecast['ds'] <= df['ds'].max()]
Historical(fc, b) ==
    LET Test(r) == r.ds <= b
    IN  SelectSeq(fc, Test)

\* Faulty variant: the boundary row is taken into the future part (>= for >).
FutureForecastInclusive(fc, b) ==
    LET Test(r) == r.ds >= b
    IN  SelectSeq(fc, Test)

\* forecast[forecast['ds'] > df['ds'].max()]
FutureForecast(fc, b) ==
    LET Test(r) == r.ds > b
    IN  SelectSeq(fc, Test)

\* x = list(future_forecast['ds']) + list(future_forecast['ds'])[::-1]
BandX(ff) == Column(ff, "ds") \o Reverse(Column(ff, "ds"))

\* Faulty variant: the lower bounds are not reversed.
BandYNoReverse(ff) == Column(ff, "yhat_upper") \o Column(ff, "yhat_lower")

\* y = list(future_forecast['yhat_upper']) + list(future_forecast['yhat_lower'])[::-1]
BandY(ff) == Column(ff, "yhat_upper") \o Reverse(Column(ff, "yhat_lower"))

\* A dataframe of the four columns: its column names and its rows.
ForecastColumns == <<"ds", "yhat", "yhat_lower", "yhat_upper">>

\* forecast[['ds', 'yhat', 'yhat_lower', 'yhat_upper']]
Project(fc) ==
    [columns |-> ForecastColumns,
     rows |-> [i \in 1..Len(fc) |->
                 <<fc[i].ds, fc[i].yhat, fc[i].yhat_lower, fc[i].yhat_upper>>]]

\* Faulty variant: the slice [n:] for [-n:], which drops the first n rows.
TailRowsDropFirst(s, n) == SubSeq(s, (IF n < Len(s) THEN n ELSE Len(s)) + 1, Len(s))

\* Faulty variant: the slice [-n:] without the case n = 0, which is every row.
TailRowsNoZeroCase(s, n) ==
    IF n >= 0 THEN SubSeq(s, (IF 0 < n /\ n < Len(s) THEN Len(s) - n ELSE 0) + 1, Len(s))
    ELSE SubSeq(s, (IF -n < Len(s) THEN -n ELSE Len(s)) + 1, Len(s))

\* DataFrame.tail(n): the last n rows; no row for n = 0; all rows but the
\* first -n for n < 0; every row when n exceeds the length.
TailRows(s, n) ==
    IF n = 0 THEN <<>>
    ELSE IF n > 0 THEN SubSeq(s, (IF n < Len(s) THEN Len(s) - n ELSE 0) + 1, Len(s))
    ELSE SubSeq(s, (IF -n < Len(s) THEN -n ELSE Len(s)) + 1, Len(s))

tail(frame, n) == [columns |-> frame.columns, rows |-> TailRows(frame.rows, n)]

\* .rename(columns={...})
RenamedColumn(c) ==
    CASE c = "ds" -> "Date"
      [] c = "yhat" -> "Predicted Revenue"
      [] c = "yhat_lower" -> "Lower Bound"
      [] c = "yhat_upper" -> "Upper Bound"
      [] OTHER -> c

Rename(frame) ==
    [columns |-> [i \in 1..Len(frame.columns) |-> RenamedColumn(frame.columns[i])],
     rows |-> frame.rows]

\* Faulty variant: head for tail, the first n rows.
ToTableHead(fc, n) ==
    [columns |-> Rename(Project(fc)).columns,
     rows |-> SubSeq(Project(fc).rows, 1, IF n < Len(fc) THEN n ELSE Len(fc))]

\* The dataframe of the forecast table.
ToTable(fc, n) == Rename(tail(Project(fc), n))

\* A day number as the ISO date <<year, month, day>> that to_csv writes.
IsLeap(y) == (y % 4 = 0 /\ y % 100 # 0) \/ y % 400 = 0

DaysInMonth(y, m) ==
    IF m = 2 THEN (IF IsLeap(y) THEN 29 ELSE 28)
    ELSE IF m \in {4, 6, 9, 11} THEN 30 ELSE 31

RECURSIVE CivilFrom(_, _, _)
CivilFrom(y, m, d) ==
    IF d < DaysInMonth(y, m) THEN <<y, m, d + 1>>
    ELSE IF m = 12 THEN CivilFrom(y + 1, 1, d - DaysInMonth(y, m))
    ELSE CivilFrom(y, m + 1, d - DaysInMonth(y, m))

ToISODate(d) == CivilFrom(2020, 1, d)

\* DataFrame.to_csv(index=False): the header line is the column names, then
\* one line per row, the date column as an ISO date.
to_csv(frame) ==
    [header |-> frame.columns,
     rows |-> [i \in 1..Len(frame.rows) |->
                 <<ToISODate(frame.rows[i][1]), frame.rows[i][2],
                   frame.rows[i][3], frame.rows[i][4]>>]]

\* csv = forecast[[...]].tail(forecast_days).to_csv(index=False)
ExportCsv(fc, n) == to_csv(tail(Project(fc), n))

-----------------------------------------------------------------------------
(* One run of the script *)

EmptyFrame == [columns |-> <<>>, rows |-> <<>>]
EmptyCsv == [header |-> <<>>, rows |-> <<>>]

NothingComputed ==
    /\ raw = <<>> /\ df = <<>> /\ err = "none"
    /\ history = <<>> /\ history_dates = <<>> /\ slope = 0
    /\ future = <<>>
    /\ historical = <<>> /\ future_forecast = <<>>
    /\ band_x = <<>> /\ band_y = <<>>
    /\ table = EmptyFrame /\ csv = EmptyCsv

Init ==
    /\ pc = "slider"
    /\ forecast_data \in Tables
    /\ forecast_days = 0
    /\ forecast = <<>> /\ boundary = 0 /\ limit = 0
    /\ NothingComputed

\* forecast_days = st.slider(..., min_value=30, max_value=365, value=90)
Slider ==
    /\ pc = "slider"
    /\ forecast_days' \in SliderMin..MaxForecastDays
    /\ pc' = "load"
    /\ UNCHANGED <<forecast_data, raw, df, err, history, history_dates, slope, future,
                   forecast, boundary, historical, future_forecast, band_x, band_y,
                   limit, table, csv>>

\* df = get_snowflake_data()
LoadData ==
    /\ pc = "load"
    /\ raw' \in get_snowflake_data(forecast_data)
    /\ pc' = "to_datetime"
    /\ UNCHANGED <<forecast_data, forecast_days, df, err, history, history_dates, slope,
                   future, forecast, boundary, historical, future_forecast, band_x,
                   band_y, limit, table, csv>>

\* df['ds'] = pd.to_datetime(df['ds'])
ToDatetime ==
    /\ pc = "to_datetime"
    /\ IF to_datetime_raises(raw)
       THEN /\ err' = ErrDatetime
            /\ pc' = "error"
            /\ df' = df
       ELSE /\ df' = to_datetime(raw)
            /\ pc' = "fit"
            /\ err' = err
    /\ UNCHANGED <<forecast_data, forecast_days, raw, history, history_dates, slope,
                   future, forecast, boundary, historical, future_forecast, band_x,
                   band_y, limit, table, csv>>

\* model = Prophet(); model.fit(df)
Fit ==
    /\ pc = "fit"
    /\ IF FitError(df) # "none"
       THEN /\ err' = FitError(df)
            /\ pc' = "error"
            /\ UNCHANGED <<history, history_dates, slope>>
       ELSE /\ history' = FitHistory(df)
            /\ history_dates' = HistoryDates(df)
            /\ slope' \in Slopes
            /\ pc' = "make_future"
            /\ err' = err
    /\ UNCHANGED <<forecast_data, forecast_days, raw, df, future, forecast, boundary,
                   historical, future_forecast, band_x, band_y, limit, table, csv>>

\* future = model.make_future_dataframe(periods=forecast_days)
MakeFuture ==
    /\ pc = "make_future"
    /\ future' = make_future_dataframe(history_dates, forecast_days)
    /\ pc' = "predict"
    /\ UNCHANGED <<forecast_data, forecast_days, raw, df, err, history, history_dates,
                   slope, forecast, boundary, historical, future_forecast, band_x,
                   band_y, limit, table, csv>>

\* forecast = model.predict(future)
Predict ==
    /\ pc = "predict"
    /\ forecast' = predict(slope, history[1].y, future)
    /\ pc' = "split"
    /\ UNCHANGED <<forecast_data, forecast_days, raw, df, err, history, history_dates,
                   slope, future, boundary, historical, future_forecast, band_x, band_y,
                   limit, table, csv>>

\* historical = ...; future_forecast = ...
Split ==
    /\ pc = "split"
    /\ boundary' = LastObserved(df)
    /\ historical' = Historical(forecast, LastObserved(df))
    /\ future_forecast' = FutureForecast(forecast, LastObserved(df))
    /\ pc' = "figure"
    /\ UNCHANGED <<forecast_data, forecast_days, raw, df, err, history, history_dates,
                   slope, future, forecast, band_x, band_y, limit, table, csv>>

\* fig.add_trace(go.Scatter(x=..., y=..., fill='toself', ...))
Figure ==
    /\ pc = "figure"
    /\ band_x' = BandX(future_forecast)
    /\ band_y' = BandY(future_forecast)
    /\ pc' = "table"
    /\ UNCHANGED <<forecast_data, forecast_days, raw, df, err, history, history_dates,
                   slope, future, forecast, boundary, historical, future_forecast,
                   limit, table, csv>>

\* st.dataframe(forecast[[...]].tail(forecast_days).rename(columns={...}))
ForecastTable ==
    /\ pc = "table"
    /\ limit' = forecast_days
    /\ table' = ToTable(forecast, forecast_days)
    /\ pc' = "csv"
    /\ UNCHANGED <<forecast_data, forecast_days, raw, df, err, history, history_dates,
                   slope, future, forecast, boundary, historical, future_forecast,
                   band_x, band_y, csv>>

\* csv = forecast[[...]].tail(forecast_days).to_csv(index=False)
Export ==
    /\ pc = "csv"
    /\ csv' = ExportCsv(forecast, forecast_days)
    /\ pc' = "done"
    /\ UNCHANGED <<forecast_data, forecast_days, raw, df, err, history, history_dates,
                   slope, future, forecast, boundary, historical, future_forecast,
                   band_x, band_y, limit, table>>

Next ==
    \/ Slider \/ LoadData \/ ToDatetime \/ Fit \/ MakeFuture \/ Predict
    \/ Split \/ Figure \/ ForecastTable \/ Export

Spec == Init /\ [][Next]_vars

-----------------------------------------------------------------------------
(* The split, the table and the confidence polygon as functions of their
   arguments: any forecast that predict returns, any boundary, any limit *)

FnDays == 0..2

FnForecasts == {predict(k, 5, ts) : k \in Slopes, ts \in SeqsUpTo(FnDays, MaxLen)}

FnInit ==
    /\ pc = "fn"
    /\ forecast_data = <<>>
    /\ forecast_days = 0
    /\ forecast \in FnForecasts
    /\ boundary \in -1..3
    /\ limit \in -1..(MaxLen + 1)
    /\ NothingComputed

FnSplit ==
    /\ pc = "fn"
    /\ historical' = Historical(forecast, boundary)
    /\ future_forecast' = FutureForecast(forecast, boundary)
    /\ pc' = "fn_split"
    /\ UNCHANGED <<forecast_data, forecast_days, raw, df, err, history, history_dates,
                   slope, future, forecast, boundary, band_x, band_y, limit, table, csv>>

FnBandEnvelope ==
    /\ pc = "fn_split"
    /\ band_x' = BandX(future_forecast)
    /\ band_y' = BandY(future_forecast)
    /\ pc' = "fn_band"
    /\ UNCHANGED <<forecast_data, forecast_days, raw, df, err, history, history_dates,
                   slope, future, forecast, boundary, historical, future_forecast,
                   limit, table, csv>>

FnToTable ==
    /\ pc = "fn"
    /\ table' = ToTable(forecast, limit)
    /\ pc' = "fn_table"
    /\ UNCHANGED <<forecast_data, forecast_days, raw, df, err, history, history_dates,
                   slope, future, forecast, boundary, historical, future_forecast,
                   band_x, band_y, limit, csv>>

FnNext == FnSplit \/ FnBandEnvelope \/ FnToTable

SpecFn == FnInit /\ [][FnNext]_vars

-----------------------------------------------------------------------------
(* Properties *)

AfterFit == {"make_future", "predict", "split", "figure", "table", "csv", "done"}
AfterSplit == {"figure", "table", "csv", "done", "fn_split", "fn_band"}
AfterFigure == {"table", "csv", "done", "fn_band"}
AfterTable == {"csv", "done"}

ProjectedRow(r) == <<r.ds, r.yhat, r.yhat_lower, r.yhat_upper>>

TableColumns == <<"Date", "Predicted Revenue", "Lower Bound", "Upper Bound">>

\* C1: the split at a boundary is a lossless, disjoint partition of the
\* forecast: the historical part holds the rows up to the boundary, the future
\* part the rows after it, both in the forecast's order, and the historical
\* part followed by the future part is the forecast; either part may be empty.
C1_SplitIsLosslessPartition ==
    pc \in AfterSplit =>
        /\ historical \o future_forecast = forecast
        /\ \A i \in 1..Len(historical) : historical[i].ds <= boundary
        /\ \A i \in 1..Len(future_forecast) : future_forecast[i].ds > boundary
        /\ \A i \in 1..Len(forecast) :
               (i <= Len(historical) /\ forecast[i] = historical[i])
                   # (i > Len(historical)
                        /\ forecast[i] = future_forecast[i - Len(historical)])

\* A split with rows on both sides of the boundary, one of them on it.
C1_Witness ==
    /\ pc = "fn_split"
    /\ Len(historical) >= 2
    /\ Len(future_forecast) >= 1
    /\ historical[Len(historical)].ds = boundary

\* C2: the future part of a run has exactly forecast_days rows, starts one day
\* after the last observed date and advances one day per row; a series ending
\* 2021-12-31 with 30 days gives 2022-01-01 to 2022-01-30.
C2_FutureSegmentIsTheHorizon ==
    pc \in AfterSplit \ {"fn_split", "fn_band"} =>
        /\ Len(future_forecast) = forecast_days
        /\ future_forecast[1].ds = LastObserved(df) + 1
        /\ \A i \in 1..Len(future_forecast) - 1 :
               future_forecast[i + 1].ds = future_forecast[i].ds + 1
        /\ (ToISODate(LastObserved(df)) = <<2021, 12, 31>> /\ forecast_days = 30) =>
               /\ ToISODate(future_forecast[1].ds) = <<2022, 1, 1>>
               /\ ToISODate(future_forecast[Len(future_forecast)].ds) = <<2022, 1, 30>>

\* A run on a series ending 2021-12-31 with a horizon of 30 days.
C2_Witness ==
    /\ pc = "done"
    /\ ToISODate(LastObserved(df)) = <<2021, 12, 31>>
    /\ forecast_days = 30
    /\ Len(future_forecast) = 30

\* C3: the forecast table of limit N has exactly N rows, the last N rows of the
\* forecast in ascending date, with the columns date, predicted value, lower
\* bound and upper bound.
C3_TableIsLastNRows ==
    pc \in AfterTable =>
        /\ limit = forecast_days
        /\ Len(table.rows) = limit
        /\ table.columns = TableColumns
        /\ \A i \in 1..limit :
               table.rows[i] = ProjectedRow(forecast[Len(forecast) - limit + i])
        /\ \A i \in 1..limit - 1 : table.rows[i][1] < table.rows[i + 1][1]

\* A table that leaves out rows of the forecast.
C3_Witness ==
    /\ pc = "csv"
    /\ Len(table.rows) = limit
    /\ Len(forecast) >= limit + 3

\* C4: with the limit equal to the horizon the table is the future part, row
\* for row, and holds no row of the observed range; so it is on input with
\* repeated timestamps.
C4_TableIsFutureSegment ==
    pc \in AfterTable =>
        /\ limit = forecast_days
        /\ table.rows = [i \in 1..Len(future_forecast) |-> ProjectedRow(future_forecast[i])]
        /\ \A i \in 1..Len(table.rows) : table.rows[i][1] > LastObserved(df)

\* A table made from input that repeats a timestamp.
C4_Witness ==
    /\ pc = "done"
    /\ \E i, j \in 1..Len(df) : i < j /\ df[i].ds = df[j].ds
    /\ Len(table.rows) = forecast_days

\* C5: the confidence polygon of a future part of n rows has 2n points: x is
\* the dates forward then backward, y the upper bounds forward then the lower
\* bounds backward, so that points i and 2n+1-i are the upper and the lower
\* bound of the same row; no observed date is on it.
C5_BandEnvelope ==
    pc \in AfterFigure =>
        LET n == Len(future_forecast)
        IN  /\ Len(band_x) = 2 * n
            /\ Len(band_y) = 2 * n
            /\ \A i \in 1..n :
                   /\ band_x[i] = future_forecast[i].ds
                   /\ band_x[2 * n + 1 - i] = band_x[i]
                   /\ band_y[i] = future_forecast[i].yhat_upper
                   /\ band_y[2 * n + 1 - i] = future_forecast[i].yhat_lower
            /\ \A i \in 1..2 * n : band_x[i] > boundary

\* A polygon around a whole horizon.
C5_Witness ==
    /\ pc = "table"
    /\ Len(future_forecast) = forecast_days
    /\ Len(band_x) = 2 * forecast_days
    /\ band_y[1] # band_y[Len(band_y)]

IsValidRow(r) == r.ds.k = "date" /\ r.y.k = "num"

HasValue(r) == r.y.k # "null"

IsBadRow(r) == r.ds.k = "text" \/ r.y.k = "text"

FitCalled == pc \in AfterFit \/ pc = "fit" \/ (pc = "error" /\ err # ErrDatetime)

\* C7 as claimed: the series handed to fit has strictly ascending, hence unique,
\* timestamps.
C7_FitSeriesStrictlySorted == FitCalled => IsStrictlySortedBy(df, Ds)

\* C7 as amended: the series handed to fit is the rows of the query result, all
\* of them and in their order, which is ascending by timestamp but not strictly:
\* rows that repeat a timestamp are all kept.
C7_FitSeriesSortedWithDuplicates ==
    FitCalled =>
        /\ IsSortedBy(df, Ds)
        /\ Len(df) = Len(raw)
        /\ Len(df) = Len(SelectSeq(forecast_data, WherePasses))
        /\ \A i \in 1..Len(df) : df[i].ds = raw[i].ds.v /\ df[i].y = raw[i].y

\* A model fitted on a series that repeats a timestamp.
C7_Witness ==
    /\ pc = "make_future"
    /\ \E i, j \in 1..Len(df) : i < j /\ df[i].ds = df[j].ds
    /\ \E i, j \in 1..Len(df) : df[i].ds < df[j].ds

\* C8 as claimed: a row with an unparseable timestamp or a non-numeric value is
\* dropped and the others are kept: a run is aborted only when fewer than two
\* valid rows are left, and a model is fitted on exactly the valid rows.
C8_BadRowsDropped ==
    /\ pc = "error" => Len(SelectSeq(raw, IsValidRow)) < 2
    /\ pc \in AfterFit =>
           history = [i \in 1..Len(SelectSeq(raw, IsValidRow)) |->
                        [ds |-> SelectSeq(raw, IsValidRow)[i].ds.v,
                         y |-> SelectSeq(raw, IsValidRow)[i].y.v]]

\* C8 as amended: a row without a value (null) is dropped from the series the
\* model is fitted on, without aborting the run and without a zero in its
\* place, and all other rows are kept; a row whose timestamp cannot be parsed
\* or whose value is a text that is no number is not dropped: it aborts the run.
C8_NullDroppedBadAborts ==
    /\ pc \in AfterFit =>
           /\ history = [i \in 1..Len(SelectSeq(raw, HasValue)) |->
                           [ds |-> SelectSeq(raw, HasValue)[i].ds.v,
                            y |-> SelectSeq(raw, HasValue)[i].y.v]]
           /\ \A i \in 1..Len(history) : history[i].y # 0
           /\ err = "none"
    /\ pc = "error" =>
           \/ \E i \in 1..Len(raw) : IsBadRow(raw[i])
           \/ Len(SelectSeq(raw, HasValue)) < 2
    /\ (\E i \in 1..Len(raw) : IsBadRow(raw[i])) => pc \in {"to_datetime", "fit", "error"}
    /\ (pc = "error" /\ \E i \in 1..Len(raw) : IsBadRow(raw[i])) =>
           /\ err \in {ErrDatetime, ErrNumeric, ErrTooFewRows}
           /\ forecast = <<>>

\* A finished run whose input had a row without a value.
C8_Witness ==
    /\ pc = "done"
    /\ \E i \in 1..Len(raw) : raw[i].y.k = "null"
    /\ Len(history) < Len(raw)

\* C9 as claimed: no valid row and exactly one valid row both abort the run
\* before anything is predicted, and by two distinct kinds of error.
C9_DistinctErrorKinds ==
    /\ (pc \notin {"slider", "load", "to_datetime", "fit"}
          /\ Len(SelectSeq(raw, IsValidRow)) <= 1) =>
           (pc = "error" /\ forecast = <<>>)
    /\ (pc = "error" /\ Len(raw) = 1 /\ IsValidRow(raw[1])) => err # FitError(<<>>)

\* C9 as amended: when the timestamps parse and fewer than two rows have a value
\* (none, or exactly one), fit aborts the run with one and the same error,
\* "Dataframe has less than 2 non-NaN rows", before anything is fitted,
\* predicted, split or exported; no forecast is produced.
C9_TooFewRowsOneError ==
    (pc \notin {"slider", "load", "to_datetime", "fit"}
       /\ ~to_datetime_raises(raw)
       /\ Len(SelectSeq(raw, HasValue)) < 2) =>
        /\ pc = "error"
        /\ err = ErrTooFewRows
        /\ err = FitError(<<>>)
        /\ history = <<>> /\ history_dates = <<>> /\ future = <<>>
        /\ forecast = <<>>
        /\ historical = <<>> /\ future_forecast = <<>>
        /\ table = EmptyFrame /\ csv = EmptyCsv

\* A run aborted on exactly one row with a value.
C9_Witness ==
    /\ pc = "error"
    /\ err = ErrTooFewRows
    /\ Len(SelectSeq(raw, IsValidRow)) = 1
    /\ Len(raw) = 1

\* C10: the exported CSV has the header Date, Predicted Revenue, Lower Bound,
\* Upper Bound and one line per row of the forecast table, in the same order
\* and with the same values.
C10_CsvIsTheTable ==
    pc = "done" =>
        /\ csv.header = TableColumns
        /\ Len(csv.rows) = Len(table.rows)
        /\ \A i \in 1..Len(csv.rows) :
               csv.rows[i] = <<ToISODate(table.rows[i][1]), table.rows[i][2],
                               table.rows[i][3], table.rows[i][4]>>

\* What the export does: the rows of the table under the column names of the
\* forecast, ds, yhat, yhat_lower, yhat_upper.
C10_CsvRowsUnderForecastColumns ==
    pc = "done" =>
        /\ csv.header = ForecastColumns
        /\ Len(csv.rows) = Len(table.rows)
        /\ \A i \in 1..Len(csv.rows) :
               csv.rows[i] = <<ToISODate(table.rows[i][1]), table.rows[i][2],
                               table.rows[i][3], table.rows[i][4]>>

====
